---- MODULE Spec2Model ----
(***************************************************************************)
(* A model of typed_count: the unit-tagged count (count_holder, count_of), *)
(* its unit conversions, operators and literals, and the bounds-carrying   *)
(* view safe_array with fixed_size_array.                                  *)
(*                                                                         *)
(* std::size_t is 64 bits wide.  A magnitude is kept as its eight bytes,   *)
(* least significant first, so that every operation has the width the      *)
(* program gives it and wraps where the program wraps.                     *)
(***************************************************************************)
EXTENDS Integers, Sequences, FiniteSets, TLC

VARIABLES op, arg, x, y, res, steps, view, P0, C0, adv, S, orig

vars == <<op, arg, x, y, res, steps, view, P0, C0, adv, S, orig>>

\* The variables of the views and their storage, which the operations on
\* counts leave alone.
viewVars == <<view, P0, C0, adv, S, orig>>

(***************************************************************************)
(* Fixed-width and unbounded unsigned arithmetic on byte sequences.        *)
(***************************************************************************)

\* One byte holds the values 0 .. Base - 1.
Base == 16 * 16

\* sizeof(std::size_t): the width of count_holder::count_, in bytes.
SizeofSizeT == 8

\* sizeof(int) and sizeof(unsigned long), the targets of to_int and to_ulong.
SizeofInt == 4
SizeofULong == 4

\* The i-th byte of a (1 is the least significant), 0 beyond its length.
Limb(a, i) == IF i <= Len(a) THEN a[i] ELSE 0

\* a modulo Base^n, as n bytes.
Trunc(a, n) == [i \in 1..n |-> Limb(a, i)]

\* The size_t holding the small number k (0 <= k < 2^31).
FromNat(k) ==
    [i \in 1..SizeofSizeT |-> IF i <= 4 THEN (k \div (Base ^ (i - 1))) % Base ELSE 0]

\* The size_t 2^e, for 0 <= e < 64.
Pow2(e) == [i \in 1..SizeofSizeT |-> IF i = (e \div 8) + 1 THEN 2 ^ (e % 8) ELSE 0]

Max(i, j) == IF i >= j THEN i ELSE j

\* Comparison of the numbers a and b, whatever their lengths.
NatEq(a, b) == \A i \in 1..Max(Len(a), Len(b)) : Limb(a, i) = Limb(b, i)

NatLess(a, b) ==
    \E i \in 1..Max(Len(a), Len(b)) :
        /\ Limb(a, i) < Limb(b, i)
        /\ \A j \in (i + 1)..Max(Len(a), Len(b)) : Limb(a, j) = Limb(b, j)

NatLeq(a, b) == NatLess(a, b) \/ NatEq(a, b)

RECURSIVE AddFrom(_, _, _, _, _)
AddFrom(a, b, n, i, carry) ==
    IF i > n THEN <<>>
    ELSE LET t == Limb(a, i) + Limb(b, i) + carry
         IN  <<t % Base>> \o AddFrom(a, b, n, i + 1, t \div Base)

\* (a + b) modulo Base^n.
NatAdd(a, b, n) == AddFrom(a, b, n, 1, 0)

RECURSIVE SubFrom(_, _, _, _, _)
SubFrom(a, b, n, i, borrow) ==
    IF i > n THEN <<>>
    ELSE LET t == Limb(a, i) - Limb(b, i) - borrow
         IN  <<(t + Base) % Base>> \o SubFrom(a, b, n, i + 1, IF t < 0 THEN 1 ELSE 0)

\* (a - b) modulo Base^n.
NatSub(a, b, n) == SubFrom(a, b, n, 1, 0)

\* The sum of the products a[i] * b[k - i + 1] from i up: the bytes of a and b
\* that meet in byte k of the product.
RECURSIVE Column(_, _, _, _)
Column(a, b, k, i) ==
    IF i > k \/ i > Len(a) THEN 0
    ELSE Limb(a, i) * Limb(b, k - i + 1) + Column(a, b, k, i + 1)

RECURSIVE MulFrom(_, _, _, _, _)
MulFrom(a, b, n, k, carry) ==
    IF k > n THEN <<>>
    ELSE LET t == Column(a, b, k, Max(1, k - Len(b) + 1)) + carry
         IN  <<t % Base>> \o MulFrom(a, b, n, k + 1, t \div Base)

\* (a * b) modulo Base^n.
NatMul(a, b, n) == MulFrom(a, b, n, 1, 0)

\* The greatest q below 2 * bit with q * d <= cur, found bit by bit.
RECURSIVE QDigit(_, _, _, _)
QDigit(cur, d, q, bit) ==
    IF bit = 0 THEN q
    ELSE IF NatLeq(NatMul(d, <<q + bit>>, Len(d) + 1), cur)
         THEN QDigit(cur, d, q + bit, bit \div 2)
         ELSE QDigit(cur, d, q, bit \div 2)

\* Long division of a by d > 0, from a's most significant byte down: the
\* bytes of the quotient, most significant first.
RECURSIVE DivFrom(_, _, _, _)
DivFrom(a, d, i, rem) ==
    IF i = 0 THEN <<>>
    ELSE LET cur == <<a[i]>> \o rem
             q   == QDigit(cur, d, 0, Base \div 2)
         IN  <<q>> \o DivFrom(a, d, i - 1,
                              NatSub(cur, NatMul(d, <<q>>, Len(d) + 1), Len(d)))

\* The number of bytes of a up to its most significant non-zero byte.
SigLen(a) ==
    IF \A i \in 1..Len(a) : a[i] = 0 THEN 0
    ELSE CHOOSE i \in 1..Len(a) : a[i] # 0 /\ \A j \in (i + 1)..Len(a) : a[j] = 0

\* The truncated quotient a / d, as Len(a) bytes.
NatDiv(a, d) ==
    LET dd == Trunc(d, SigLen(d))
        q  == DivFrom(a, dd, Len(a), [i \in 1..Len(dd) |-> 0])
    IN  [i \in 1..Len(a) |-> q[Len(a) + 1 - i]]

(***************************************************************************)
(* Units and their sizes in bytes (unit_traits).                           *)
(***************************************************************************)

Units == {"byte", "char", "wchar_t", "Page", "Kb", "Mb", "Gb", "Tb"}

\* sizeof(char) and sizeof(std::byte), and sizeof(wchar_t) where the
\* program builds (strcpy_s and wcscpy_s name the platform: 2-byte wchar_t).
SizeofChar == 1
SizeofWchar == 2

unit_traits(T) ==
    CASE T = "byte"    -> FromNat(SizeofChar)
      [] T = "char"    -> FromNat(SizeofChar)
      [] T = "wchar_t" -> FromNat(SizeofWchar)
      [] T = "Page"    -> FromNat(8 * 1024)
      [] T = "Kb"      -> FromNat(1024)
      [] T = "Mb"      -> FromNat(1024 * 1024)
      [] T = "Gb"      -> FromNat(1024 * 1024 * 1024)
      [] T = "Tb"      -> NatMul(NatMul(NatMul(FromNat(1024), FromNat(1024), SizeofSizeT),
                                        FromNat(1024), SizeofSizeT),
                                 FromNat(1024), SizeofSizeT)

(***************************************************************************)
(* count_holder and count_of<T>: a count is its unit tag (the template     *)
(* argument) and the size_t it holds.                                      *)
(***************************************************************************)

count_of(T, count) == [unit |-> T, count_ |-> count]

count_of_default(T) == count_of(T, FromNat(0))

count(c) == c.count_

\* count_ * multiplier / divider, all in size_t.
convert(c, multiplier, divider) ==
    NatDiv(NatMul(c.count_, multiplier, SizeofSizeT), divider)

to_count_of(c, U) == count_of(U, convert(c, unit_traits(c.unit), unit_traits(U)))

to_size(c) == count(c)

\* static_cast<int>: the low bytes, read as a two's complement number.
to_int(c) ==
    LET b == Trunc(count(c), SizeofInt)
        top == IF b[4] >= Base \div 2 THEN b[4] - Base ELSE b[4]
    IN  b[1] + Base * b[2] + Base * Base * b[3] + Base * Base * Base * top

\* static_cast<unsigned long>: the low bytes, as an unsigned number.
to_ulong(c) == Trunc(Trunc(count(c), SizeofULong), SizeofSizeT)

to_byte_count(c) == to_size(to_count_of(c, "byte"))

to_int_byte_count(c) == to_int(to_count_of(c, "byte"))

to_ulong_byte_count(c) == to_ulong(to_count_of(c, "byte"))

\* A to_wchar_count that goes through unsigned long, as its comment says.
to_wchar_count_as_ulong(c) == to_ulong(to_count_of(c, "wchar_t"))

to_wchar_count(c) == to_size(to_count_of(c, "wchar_t"))

to_int_wchar_count(c) == to_int(to_count_of(c, "wchar_t"))

to_ulong_wchar_count(c) == to_ulong(to_count_of(c, "wchar_t"))

(***************************************************************************)
(* The typedefs for the common units and the literal operators.            *)
(***************************************************************************)

byte_count(n) == count_of("byte", n)
char_count(n) == count_of("char", n)
wchar_count(n) == count_of("wchar_t", n)
page_count(n) == count_of("Page", n)
kb_count(n) == count_of("Kb", n)
mb_count(n) == count_of("Mb", n)
gb_count(n) == count_of("Gb", n)
tb_count(n) == count_of("Tb", n)

\* static_cast<size_t> of an unsigned long long keeps all 64 bits.
literal_bt(n) == byte_count(Trunc(n, SizeofSizeT))
literal_ch(n) == char_count(Trunc(n, SizeofSizeT))
literal_wch(n) == wchar_count(Trunc(n, SizeofSizeT))
literal_pg(n) == page_count(Trunc(n, SizeofSizeT))
literal_kb(n) == kb_count(Trunc(n, SizeofSizeT))
literal_mb(n) == mb_count(Trunc(n, SizeofSizeT))
literal_gb(n) == gb_count(Trunc(n, SizeofSizeT))
literal_tb(n) == gb_count(Trunc(n, SizeofSizeT))

Suffixes == {"_bt", "_ch", "_wch", "_pg", "_kb", "_mb", "_gb", "_tb"}

Literal(s, n) ==
    CASE s = "_bt"  -> literal_bt(n)
      [] s = "_ch"  -> literal_ch(n)
      [] s = "_wch" -> literal_wch(n)
      [] s = "_pg"  -> literal_pg(n)
      [] s = "_kb"  -> literal_kb(n)
      [] s = "_mb"  -> literal_mb(n)
      [] s = "_gb"  -> literal_gb(n)
      [] s = "_tb"  -> literal_tb(n)

(***************************************************************************)
(* Arithmetic and comparison.  A member operator that changes its object   *)
(* yields the object afterwards (self) and the value it returns (ret).     *)
(***************************************************************************)

holder_plus_assign(c, other) ==
    [c EXCEPT !.count_ = NatAdd(c.count_, other.count_, SizeofSizeT)]

\* A subtraction that stops at zero instead of wrapping.
holder_minus_assign_clamped(c, other) ==
    [c EXCEPT !.count_ = IF NatLess(c.count_, other.count_) THEN FromNat(0)
                         ELSE NatSub(c.count_, other.count_, SizeofSizeT)]

holder_minus_assign(c, other) ==
    [c EXCEPT !.count_ = NatSub(c.count_, other.count_, SizeofSizeT)]

holder_pre_inc(c) == [c EXCEPT !.count_ = NatAdd(c.count_, FromNat(1), SizeofSizeT)]

holder_post_inc(c) == [self |-> holder_pre_inc(c), ret |-> c]

holder_pre_dec(c) == [c EXCEPT !.count_ = NatSub(c.count_, FromNat(1), SizeofSizeT)]

holder_post_dec(c) == [self |-> holder_pre_dec(c), ret |-> c]

plus_assign(c, other) ==
    LET s == holder_plus_assign(c, other) IN [self |-> s, ret |-> s]

minus_assign(c, other) ==
    LET s == holder_minus_assign(c, other) IN [self |-> s, ret |-> s]

pre_inc(c) == LET s == holder_pre_inc(c) IN [self |-> s, ret |-> s]

\* A postfix ++ that returns the updated count, as the prefix one does.
post_inc_returning_updated(c) == LET s == holder_pre_inc(c) IN [self |-> s, ret |-> s]

post_inc(c) == [self |-> holder_post_inc(c).self, ret |-> c]

pre_dec(c) == LET s == holder_pre_dec(c) IN [self |-> s, ret |-> s]

post_dec(c) == [self |-> holder_post_dec(c).self, ret |-> c]

\* An addition that stops at the largest size_t instead of wrapping.
operator_plus_saturating(lhs, rhs) ==
    LET sum == NatAdd(to_size(lhs), to_size(rhs), SizeofSizeT)
    IN  count_of(lhs.unit,
                 IF NatLess(sum, to_size(lhs))
                 THEN NatSub(FromNat(0), FromNat(1), SizeofSizeT) ELSE sum)

operator_plus(lhs, rhs) ==
    count_of(lhs.unit, NatAdd(to_size(lhs), to_size(rhs), SizeofSizeT))

operator_minus(lhs, rhs) ==
    count_of(lhs.unit, NatSub(to_size(lhs), to_size(rhs), SizeofSizeT))

\* An equality that compares the counts as ints.
operator_eq_as_int(lhs, rhs) == to_int(lhs) = to_int(rhs)

operator_eq(lhs, rhs) == to_size(lhs) = to_size(rhs)

operator_ne(lhs, rhs) == ~operator_eq(lhs, rhs)

\* A < that compares the magnitudes as ints.
operator_lt_as_int(lhs, rhs) == to_int(lhs) < to_int(rhs)

operator_lt(lhs, rhs) == NatLess(to_size(lhs), to_size(rhs))

operator_le(lhs, rhs) == operator_lt(lhs, rhs) \/ operator_eq(lhs, rhs)

operator_gt(lhs, rhs) == ~operator_le(lhs, rhs)

operator_ge(lhs, rhs) == ~operator_lt(lhs, rhs)

(***************************************************************************)
(* Conversions and literals: one count x, built by a constructor or a      *)
(* literal, and the result res of the last conversion applied to it.       *)
(***************************************************************************)

\* Magnitudes are m * 2^e and 2^64 - 1, for m up to MaxMant.
MaxMant == 4

ConvExps == {0, 7, 24, 34, 51, 63}

MaxSize == NatSub(FromNat(0), FromNat(1), SizeofSizeT)

ConvMags ==
    {NatMul(FromNat(m), Pow2(e), SizeofSizeT) : m \in 0..MaxMant, e \in ConvExps}
        \cup {MaxSize}

\* Literals are written with magnitudes up to MaxLit, and 128.
MaxLit == 4

LitMags == {FromNat(m) : m \in 0..MaxLit} \cup {FromNat(128)}

NoCount == count_of_default("byte")

\* No view is in use, and no storage.
NoView ==
    /\ view = "none"
    /\ P0 = "none"
    /\ C0 = "none"
    /\ adv = 0
    /\ S = <<>>
    /\ orig = "none"

InitConv ==
    /\ op = "count_of"
    /\ arg = "none"
    /\ \E T \in Units : x = count_of_default(T)
    /\ y = NoCount
    /\ res = x
    /\ steps = 0
    /\ NoView

Construct(T, n) ==
    /\ op' = "count_of"
    /\ arg' = "none"
    /\ x' = count_of(T, n)
    /\ res' = x'
    /\ UNCHANGED <<y, steps, viewVars>>

UseLiteral(s, n) ==
    /\ op' = "literal"
    /\ arg' = [suffix |-> s, n |-> n]
    /\ x' = Literal(s, n)
    /\ res' = x'
    /\ UNCHANGED <<y, steps, viewVars>>

\* A conversion is applied to the count just built: it is const, and leaves x
\* as it was.
Fresh == op \in {"count_of", "literal"}

ToCountOf(U) ==
    /\ Fresh
    /\ op' = "to_count_of"
    /\ arg' = U
    /\ res' = to_count_of(x, U)
    /\ UNCHANGED <<x, y, steps, viewVars>>

Accessor(name, value) ==
    /\ Fresh
    /\ op' = name
    /\ arg' = "none"
    /\ res' = value
    /\ UNCHANGED <<x, y, steps, viewVars>>

ToSize == Accessor("to_size", to_size(x))
ToInt == Accessor("to_int", to_int(x))
ToULong == Accessor("to_ulong", to_ulong(x))
ToByteCount == Accessor("to_byte_count", to_byte_count(x))
ToIntByteCount == Accessor("to_int_byte_count", to_int_byte_count(x))
ToULongByteCount == Accessor("to_ulong_byte_count", to_ulong_byte_count(x))
ToWcharCount == Accessor("to_wchar_count", to_wchar_count(x))
ToIntWcharCount == Accessor("to_int_wchar_count", to_int_wchar_count(x))
ToULongWcharCount == Accessor("to_ulong_wchar_count", to_ulong_wchar_count(x))

NextConv ==
    \/ \E T \in Units, n \in ConvMags : Construct(T, n)
    \/ \E s \in Suffixes, n \in LitMags : UseLiteral(s, n)
    \/ \E U \in Units : ToCountOf(U)
    \/ ToSize
    \/ ToInt
    \/ ToULong
    \/ ToByteCount
    \/ ToIntByteCount
    \/ ToULongByteCount
    \/ ToWcharCount
    \/ ToIntWcharCount
    \/ ToULongWcharCount

SpecConv == InitConv /\ [][NextConv]_vars

(***************************************************************************)
(* Arithmetic: two counts x and y of one unit.  The operators that change  *)
(* x leave its value before the call in arg; res is what the last          *)
(* operator returned.                                                      *)
(***************************************************************************)

\* Operands are 0 .. MaxSmall, 2^64 - MaxSmall .. 2^64 - 1, 2^32 and 2^63.
MaxSmall == 2

ArithMags ==
    {FromNat(k) : k \in 0..MaxSmall}
        \cup {NatSub(FromNat(0), FromNat(k), SizeofSizeT) : k \in 1..MaxSmall}
        \cup {Pow2(32), Pow2(63)}

ArithUnits == {"char", "Page"}

\* At most MaxSteps operators that change x are applied in a row.
MaxSteps == 2

InitArith ==
    /\ op = "init"
    /\ arg = "none"
    /\ \E T \in ArithUnits, n \in ArithMags, m \in ArithMags :
           x = count_of(T, n) /\ y = count_of(T, m)
    /\ res = "none"
    /\ steps = 0
    /\ NoView

Binary(name, value) ==
    /\ op' = name
    /\ arg' = "none"
    /\ res' = value
    /\ UNCHANGED <<x, y, steps, viewVars>>

Plus == Binary("plus", operator_plus(x, y))

Minus == Binary("minus", operator_minus(x, y))

\* (x + y) - y: the sum just computed, less y.
PlusThenMinus == op = "plus" /\ Binary("plus_minus", operator_minus(res, y))

Equal == Binary("eq", operator_eq(x, y))

NotEqual == Binary("ne", operator_ne(x, y))

Less == Binary("lt", operator_lt(x, y))

LessEqual == Binary("le", operator_le(x, y))

Greater == Binary("gt", operator_gt(x, y))

GreaterEqual == Binary("ge", operator_ge(x, y))

Member(name, r) ==
    /\ steps < MaxSteps
    /\ steps' = steps + 1
    /\ op' = name
    /\ arg' = x
    /\ x' = r.self
    /\ res' = r.ret
    /\ UNCHANGED <<y, viewVars>>

PlusAssign == Member("plus_assign", plus_assign(x, y))
MinusAssign == Member("minus_assign", minus_assign(x, y))
PreInc == Member("pre_inc", pre_inc(x))
PostInc == Member("post_inc", post_inc(x))
PreDec == Member("pre_dec", pre_dec(x))
PostDec == Member("post_dec", post_dec(x))

NextArith ==
    \/ Plus
    \/ Minus
    \/ PlusThenMinus
    \/ Equal
    \/ NotEqual
    \/ Less
    \/ LessEqual
    \/ Greater
    \/ GreaterEqual
    \/ PlusAssign
    \/ MinusAssign
    \/ PreInc
    \/ PostInc
    \/ PreDec
    \/ PostDec

SpecArith == InitArith /\ [][NextArith]_vars

(***************************************************************************)
(* Properties of conversions and literals, under SpecConv.                 *)
(***************************************************************************)

\* The byte size the specification gives each unit.
StatedSize(U) ==
    CASE U = "byte"    -> FromNat(1)
      [] U = "char"    -> FromNat(1)
      [] U = "wchar_t" -> FromNat(2)
      [] U = "Page"    -> FromNat(8192)
      [] U = "Kb"      -> Pow2(10)
      [] U = "Mb"      -> Pow2(20)
      [] U = "Gb"      -> Pow2(30)
      [] U = "Tb"      -> Pow2(40)

\* The number n * size(U), not reduced modulo 2^64.
ExactProduct(n, U) == NatMul(n, StatedSize(U), 2 * SizeofSizeT)

\* q is the truncated quotient of the number a by d: q * d <= a < (q + 1) * d.
IsQuotient(q, a, d) ==
    /\ NatLeq(NatMul(q, d, 2 * SizeofSizeT + 1), a)
    /\ NatLess(a, NatMul(NatAdd(q, FromNat(1), SizeofSizeT + 1), d, 2 * SizeofSizeT + 1))

\* The quotient of a by d is one a count can hold: a < 2^64 * d.
QuotientFits(a, d) == NatLess(a, [i \in 1..SizeofSizeT |-> 0] \o d)

\* C1: for all units U, V and every magnitude n a count can hold,
\* count_of<U>(n).to_count_of<V>().to_size() is the truncated quotient
\* (n * size(U)) / size(V); 128 pages are 1024 Kb and 3 bytes are 0 Kb.
\* (Stated for the quotients a count can hold: no size_t equals the others.)
C1_ConversionIsExactQuotient ==
    /\ op = "to_count_of" =>
           /\ res.unit = arg
           /\ QuotientFits(ExactProduct(x.count_, x.unit), StatedSize(arg)) =>
                  IsQuotient(to_size(res), ExactProduct(x.count_, x.unit), StatedSize(arg))
    /\ to_count_of(page_count(FromNat(128)), "Kb") = kb_count(FromNat(1024))
    /\ to_size(to_count_of(byte_count(FromNat(3)), "Kb")) = FromNat(0)

\* The unit each literal suffix names.
SuffixUnit(s) ==
    CASE s = "_bt"  -> "byte"
      [] s = "_ch"  -> "char"
      [] s = "_wch" -> "wchar_t"
      [] s = "_pg"  -> "Page"
      [] s = "_kb"  -> "Kb"
      [] s = "_mb"  -> "Mb"
      [] s = "_gb"  -> "Gb"
      [] s = "_tb"  -> "Tb"

\* C7: each literal suffix constructs a count of the unit it names with the
\* literal's magnitude, so the literal converted to bytes is n times that
\* unit's byte size.
C7_LiteralNamesItsUnit ==
    op = "literal" =>
        /\ x.unit = SuffixUnit(arg.suffix)
        /\ x.count_ = arg.n
        /\ NatEq(to_size(to_count_of(x, "byte")),
                 NatMul(arg.n, StatedSize(SuffixUnit(arg.suffix)), 2 * SizeofSizeT))

IsSizeT(n) == Len(n) = SizeofSizeT /\ \A i \in 1..SizeofSizeT : n[i] \in 0..(Base - 1)

\* d is (a - b) modulo 2^64: d + b is a, or a + 2^64 when b exceeds a.
IsWrappedDifference(d, a, b) ==
    /\ IsSizeT(d)
    /\ NatAdd(d, b, SizeofSizeT + 1) =
           Trunc(a, SizeofSizeT) \o <<IF NatLess(a, b) THEN 1 ELSE 0>>

\* C5: (a + b) - b equals a, also when a + b wraps.
C5_AddThenSubtract ==
    op = "plus_minus" => res = x /\ operator_eq(res, x)

\* (x + y) - y has been computed for a sum that wrapped.
C5_Witness ==
    /\ op = "plus_minus"
    /\ x.count_ = MaxSize
    /\ y.count_ = FromNat(2)
    /\ res = x

\* C6: count_of<U>(n1) == count_of<U>(n2) iff n1 = n2, and != is the
\* negation of ==.
C6_EqualityIffSameMagnitude ==
    /\ op = "eq" => (res <=> NatEq(x.count_, y.count_))
    /\ op = "ne" => (res <=> ~NatEq(x.count_, y.count_))

\* == has returned false for two counts that agree in their low 32 bits.
C6_Witness ==
    /\ op = "eq"
    /\ res = FALSE
    /\ to_int(x) = to_int(y)

\* C10: subtracting a larger count from a smaller one (binary -, -=, or --
\* on zero) yields a - b modulo 2^64, a size_t like any other.
C10_SubtractionWraps ==
    /\ op = "minus" => IsWrappedDifference(res.count_, x.count_, y.count_)
    /\ op = "minus_assign" =>
           /\ IsWrappedDifference(x.count_, arg.count_, y.count_)
           /\ res = x
    /\ op \in {"pre_dec", "post_dec"} =>
           IsWrappedDifference(x.count_, arg.count_, FromNat(1))

\* -= has run with a right operand larger than the left one.
C10_Witness ==
    /\ op = "minus_assign"
    /\ arg.count_ = FromNat(1)
    /\ y.count_ = FromNat(2)
    /\ x.count_ = MaxSize

\* The magnitude a is below the magnitude b: a - b, taken in one byte more
\* than a size_t has, borrows.
Below(a, b) == NatSub(a, b, SizeofSizeT + 1)[SizeofSizeT + 1] # 0

\* Exactly one of the three holds.
ExactlyOne(p, q, r) == (p \/ q \/ r) /\ ~(p /\ q) /\ ~(p /\ r) /\ ~(q /\ r)

\* C13: on two counts a, b of one unit, exactly one of a < b, a == b, a > b
\* holds; a <= b iff a < b or a == b; a > b iff not a <= b; a >= b iff not
\* a < b; and a < b iff the magnitude of a is below that of b.
C13_ComparisonsAreATotalOrder ==
    /\ x.unit = y.unit =>
           /\ ExactlyOne(operator_lt(x, y), operator_eq(x, y), operator_gt(x, y))
           /\ operator_le(x, y) <=> (operator_lt(x, y) \/ operator_eq(x, y))
           /\ operator_gt(x, y) <=> ~operator_le(x, y)
           /\ operator_ge(x, y) <=> ~operator_lt(x, y)
           /\ operator_lt(x, y) <=> Below(to_size(x), to_size(y))
           /\ operator_gt(x, y) <=> Below(to_size(y), to_size(x))
    /\ op = "lt" => (res <=> Below(x.count_, y.count_))
    /\ op = "le" => (res <=> ~Below(y.count_, x.count_))
    /\ op = "gt" => (res <=> Below(y.count_, x.count_))
    /\ op = "ge" => (res <=> ~Below(x.count_, y.count_))

\* < has returned false and > true for 2^64 - 1 against 1: as ints the two
\* are -1 and 1.
C13_Witness ==
    /\ op = "gt"
    /\ res = TRUE
    /\ x.count_ = MaxSize
    /\ y.count_ = FromNat(1)
    /\ ~operator_lt(x, y)
    /\ to_int(x) < to_int(y)

(***************************************************************************)
(* Pointers.  A pointer is null, or points at element off of an array of   *)
(* len elements (off = len is one past its end).  Arithmetic that leaves   *)
(* the array, or moves a null pointer, is undefined: its result is one of  *)
(* several pointers.                                                       *)
(***************************************************************************)

\* Storage has at most MaxLen elements; one advance moves by at most MaxDist.
MaxLen == 3
MaxDist == 2

nullptr == [null |-> TRUE, off |-> 0, len |-> 0]

Ptr(off, len) == [null |-> FALSE, off |-> off, len |-> len]

\* The small number a size_t holds in its low bytes.
ToNat(n) == n[1] + Base * n[2] + Base * Base * n[3]

\* What undefined arithmetic on p may give: a null pointer, a pointer at the
\* start of the array, or the address n elements on in a flat address space.
AnyPointer(p, n) ==
    {nullptr, Ptr(0, p.len)}
        \cup (IF NatLeq(n, FromNat(MaxDist)) THEN {Ptr(p.off + ToNat(n), p.len)} ELSE {})

\* The pointers p + n may be, n a size_t.
PointerPlus(p, n) ==
    IF p.null
    THEN IF NatEq(n, FromNat(0)) THEN {p} ELSE AnyPointer(p, n)
    ELSE IF p.off <= p.len /\ NatLeq(n, FromNat(p.len - p.off))
         THEN {Ptr(p.off + ToNat(n), p.len)}
         ELSE AnyPointer(p, n)

(***************************************************************************)
(* fixed_size_array<T, N> and safe_array<T>.                               *)
(***************************************************************************)

ElemTypes == {"wchar_t", "const wchar_t"}

remove_cv(T) ==
    CASE T = "const char"    -> "char"
      [] T = "const wchar_t" -> "wchar_t"
      [] OTHER               -> T

\* count_t: the count of the element type without its qualifiers.
count_t(T, n) == count_of(remove_cv(T), n)

fixed_size_array(T, N) == [T |-> T, N |-> N]

\* A count() that leaves the last element out.
fixed_count_short(a) == count_t(a.T, FromNat(a.N - 1))

fixed_count(a) == count_t(a.T, FromNat(a.N))

\* operator T* const: the address of elems[0].
fixed_decay(a) == Ptr(0, a.N)

safe_array(T, pElems, cnt) == [T |-> T, pElems_ |-> pElems, count_ |-> cnt]

safe_array_raw(T, pElems, n) == safe_array(T, pElems, count_t(T, n))

safe_array_default(T) == safe_array_raw(T, nullptr, FromNat(0))

safe_array_from_fixed(a) == safe_array(a.T, fixed_decay(a), fixed_count(a))

view_count(v) == v.count_

\* A conversion to bool that looks at the pointer alone.
operator_bool_pointer_only(v) == ~v.pElems_.null

operator_bool(v) ==
    ~v.pElems_.null /\ operator_gt(v.count_, count_t(v.T, FromNat(0)))

\* An operator += that moves the pointer and leaves the count as it was.
view_plus_assign_pointer_only(v, distance) ==
    {[v EXCEPT !.pElems_ = q] : q \in PointerPlus(v.pElems_, to_size(distance))}

\* operator +=: the views *this may be afterwards.
view_plus_assign(v, distance) ==
    {[v EXCEPT !.pElems_ = q, !.count_ = minus_assign(v.count_, distance).self] :
        q \in PointerPlus(v.pElems_, to_size(distance))}

\* operator +: the views it may return.
view_plus(v, distance) ==
    {safe_array(v.T, q, operator_minus(v.count_, distance)) :
        q \in PointerPlus(v.pElems_, to_size(distance))}

view_pre_inc(v) ==
    {[self |-> w, ret |-> w] : w \in view_plus_assign(v, count_t(v.T, FromNat(1)))}

view_post_inc(v) ==
    {[self |-> w, ret |-> v] : w \in view_plus_assign(v, count_t(v.T, FromNat(1)))}

(***************************************************************************)
(* The view: one safe_array, view, built by one of its constructors and    *)
(* then advanced.  P0 and C0 are the pointer and the magnitude it was      *)
(* built with, adv the sum of the distances it has been advanced by.       *)
(***************************************************************************)

\* At most MaxAdvances operators that move the view are applied in a row.
MaxAdvances == 2

StoragePointers == {Ptr(off, len) : off \in 0..MaxLen, len \in 1..MaxLen}

Built(name, a, v) ==
    /\ op = "init"
    /\ op' = name
    /\ arg' = a
    /\ view' = v
    /\ P0' = v.pElems_
    /\ C0' = v.count_.count_
    /\ adv' = 0
    /\ res' = "none"
    /\ UNCHANGED <<x, y, steps, S, orig>>

\* No view has been built yet.
InitView ==
    /\ op = "init"
    /\ arg = "none"
    /\ NoView
    /\ steps = 0
    /\ res = "none"
    /\ x = NoCount
    /\ y = NoCount

\* The caller's part: a count given with a pointer into storage is no more
\* than the elements from that pointer to the end of the storage.
Fits(p, n) == p.null \/ (p.off <= p.len /\ n <= p.len - p.off)

Default(T) == Built("safe_array", "none", safe_array_default(T))

ConstructRaw(T, p, n) ==
    /\ Fits(p, n)
    /\ Built("safe_array_raw", [T |-> T, p |-> p, n |-> FromNat(n)],
             safe_array_raw(T, p, FromNat(n)))

ConstructCounted(T, p, n) ==
    /\ Fits(p, n)
    /\ Built("safe_array_counted", [T |-> T, p |-> p, n |-> FromNat(n)],
             safe_array(T, p, count_t(T, FromNat(n))))

ConstructFromFixed(T, N) ==
    Built("safe_array_fixed", fixed_size_array(T, N),
          safe_array_from_fixed(fixed_size_array(T, N)))

\* A view has been built.
ViewBuilt == op # "init"

Moved(name, d, v, r) ==
    /\ steps < MaxAdvances
    /\ steps' = steps + 1
    /\ op' = name
    /\ arg' = d
    /\ view' = v
    /\ adv' = adv + d
    /\ res' = r
    /\ UNCHANGED <<x, y, P0, C0, S, orig>>

ViewPlusAssign(d) ==
    /\ ViewBuilt
    /\ \E w \in view_plus_assign(view, count_t(view.T, FromNat(d))) :
           Moved("view_plus_assign", d, w, w)

ViewPreInc ==
    /\ ViewBuilt
    /\ \E r \in view_pre_inc(view) : Moved("view_pre_inc", 1, r.self, r.ret)

ViewPostInc ==
    /\ ViewBuilt
    /\ \E r \in view_post_inc(view) : Moved("view_post_inc", 1, r.self, r.ret)

\* A const member is called on the view as a constructor or an advance left
\* it: it leaves the view as it was.
Settled == op \notin {"view_plus", "bool", "view_count"}

Observed(name, a, r) ==
    /\ Settled
    /\ op' = name
    /\ arg' = a
    /\ res' = r
    /\ UNCHANGED <<x, y, steps, viewVars>>

ViewPlus(d) ==
    /\ ViewBuilt
    /\ \E w \in view_plus(view, count_t(view.T, FromNat(d))) : Observed("view_plus", d, w)

\* view = view + d: the sum just computed is copied into the view.
ViewAssignSum == op = "view_plus" /\ Moved("view_assign", arg, res, res)

ViewBool == ViewBuilt /\ Observed("bool", "none", operator_bool(view))

ViewCount == ViewBuilt /\ Observed("view_count", "none", view_count(view))

NextView ==
    \/ \E T \in ElemTypes : Default(T)
    \/ \E T \in ElemTypes, p \in StoragePointers \cup {nullptr}, n \in 0..MaxLen :
           ConstructRaw(T, p, n)
    \/ \E T \in ElemTypes, p \in StoragePointers \cup {nullptr}, n \in 0..MaxLen :
           ConstructCounted(T, p, n)
    \/ \E T \in ElemTypes, N \in 1..MaxLen : ConstructFromFixed(T, N)
    \/ \E d \in 0..MaxDist : ViewPlusAssign(d)
    \/ ViewPreInc
    \/ ViewPostInc
    \/ \E d \in 0..MaxDist : ViewPlus(d)
    \/ ViewAssignSum
    \/ ViewBool
    \/ ViewCount

SpecView == InitView /\ [][NextView]_vars

(***************************************************************************)
(* Properties of the view, under SpecView.                                 *)
(***************************************************************************)

\* The view was built with a pointer into storage.
OverStorage == ViewBuilt /\ ~P0.null

\* The magnitude r is the magnitude c less the small number d.
IsLess(r, c, d) == NatAdd(r, FromNat(d), SizeofSizeT + 1) = Trunc(c, SizeofSizeT + 1)

\* C2: a view built with pointer P and count C, advanced by distances that
\* sum to D <= C, has pointer P + D and remaining count C - D; operator +
\* returns such a view.  (P points into storage: P + D is not defined for a
\* null P.)
C2_AdvanceTracksCount ==
    OverStorage =>
        /\ NatLeq(FromNat(adv), C0) =>
               /\ view.pElems_ = Ptr(P0.off + adv, P0.len)
               /\ IsLess(view.count_.count_, C0, adv)
        /\ (op = "view_plus" /\ NatLeq(FromNat(adv + arg), C0)) =>
               /\ res.pElems_ = Ptr(P0.off + adv + arg, P0.len)
               /\ IsLess(res.count_.count_, C0, adv + arg)

\* A view of 3 elements has been advanced by 1 and then by 2: nothing remains.
C2_Witness ==
    /\ OverStorage
    /\ op = "view_plus_assign"
    /\ steps = 2
    /\ arg = 2
    /\ adv = 3
    /\ C0 = FromNat(3)
    /\ view.pElems_ = Ptr(P0.off + 3, P0.len)
    /\ view.count_.count_ = FromNat(0)

\* C3: a view built with a non-null pointer and count C, whenever it reports
\* a remaining count r > 0 (as it does when it is boolean-true), is at a
\* position inside the initial C elements with position + r <= C, also when
\* the distances advanced sum to more than C.
C3_NeverExposesBeyondCount ==
    OverStorage =>
        ((operator_bool(view) \/ NatLess(FromNat(0), view.count_.count_)) =>
            /\ ~view.pElems_.null
            /\ view.pElems_.off >= P0.off
            /\ NatLess(FromNat(view.pElems_.off - P0.off), C0)
            /\ NatLeq(NatAdd(FromNat(view.pElems_.off - P0.off),
                             view.count_.count_, SizeofSizeT + 1),
                      C0))

\* C4: conversion to bool yields true exactly when the pointer is non-null
\* and the remaining count is greater than zero, in every state of a view.
C4_BoolIffPointerAndCount ==
    ViewBuilt =>
        /\ operator_bool(view) <=>
               (~view.pElems_.null /\ ~NatEq(view.count_.count_, FromNat(0)))
        /\ op = "bool" =>
               (res <=> (~view.pElems_.null /\ ~NatEq(view.count_.count_, FromNat(0))))
        /\ (op = "bool" /\ P0.null /\ adv = 0 /\ NatEq(C0, FromNat(0))) => res = FALSE
        /\ (op = "bool" /\ ~P0.null /\ NatEq(C0, FromNat(adv))) => res = FALSE

\* A view over storage, advanced by exactly its count, has been converted to
\* bool: its pointer is not null and it is false.
C4_Witness ==
    /\ OverStorage
    /\ op = "bool"
    /\ adv > 0
    /\ C0 = FromNat(adv)
    /\ ~view.pElems_.null
    /\ res = FALSE

\* C9: a view made from a fixed_size_array of N elements points at its first
\* element and has count N, the array's own count(); a view made from a
\* pointer and a raw length L has count L, whatever the qualifiers of its
\* element type.
C9_ViewCountIsLength ==
    /\ op = "safe_array_fixed" =>
           /\ view.pElems_ = Ptr(0, arg.N)
           /\ view.count_.count_ = FromNat(arg.N)
           /\ view.count_.unit = fixed_count(arg).unit
           /\ operator_eq(view.count_, fixed_count(arg))
    /\ op = "safe_array_raw" =>
           /\ view.pElems_ = arg.p
           /\ view.count_.count_ = arg.n
           /\ \A T2 \in ElemTypes :
                  remove_cv(T2) = remove_cv(arg.T) =>
                      /\ view.count_.unit = safe_array_raw(T2, arg.p, arg.n).count_.unit
                      /\ operator_eq(view.count_, safe_array_raw(T2, arg.p, arg.n).count_)

\* A view has been made from a fixed_size_array<const wchar_t, 3>.
C9_Witness ==
    /\ op = "safe_array_fixed"
    /\ arg = fixed_size_array("const wchar_t", 3)
    /\ view.count_ = wchar_count(FromNat(3))
    /\ view.pElems_ = Ptr(0, 3)

(***************************************************************************)
(* Elements.  Storage is the sequence of its elements' values; an element  *)
(* is named by its index from 0, and -1 names memory outside the storage.  *)
(* Dereferencing a pointer that is null or not at an element is undefined: *)
(* the reference it gives may be to any element, or to none.               *)
(***************************************************************************)

AnyElement(s) == (0..(Len(s) - 1)) \cup {-1}

\* *q: the elements the reference may be to.
Deref(q, s) == IF ~q.null /\ q.off < q.len THEN {q.off} ELSE AnyElement(s)

\* A subscript that counts from the start of the storage, whatever the
\* position of the view.
operator_index_from_start(v, idx, s) ==
    UNION {Deref(q, s) : q \in PointerPlus([v.pElems_ EXCEPT !.off = 0], to_size(idx))}

\* operator []: pElems_[idx.to_size()].
operator_index(v, idx, s) ==
    UNION {Deref(q, s) : q \in PointerPlus(v.pElems_, to_size(idx))}

\* operator *: *pElems_.
operator_deref(v, s) == Deref(v.pElems_, s)

\* The copy constructor the class is given: member by member.
safe_array_copy(v) == safe_array(v.T, v.pElems_, v.count_)

\* A binary + that advances its operand as += does.
view_plus_advancing(v, distance) ==
    {[self |-> w, ret |-> w] : w \in view_plus_assign(v, distance)}

\* operator + as a call on v: v after the call, and the view returned.
view_plus_const(v, distance) ==
    {[self |-> v, ret |-> w] : w \in view_plus(v, distance)}

(***************************************************************************)
(* Views over storage that is written through them: the storage S, the     *)
(* view orig built over it from its first element, and view, a copy of     *)
(* orig that is advanced.  x is the count i used as a subscript.  The      *)
(* m-th write stores the m-th letter, kept as the number m; 0 is an        *)
(* element not yet written.                                                *)
(***************************************************************************)

\* Storage has at most MaxStore elements and is written at most MaxWrites
\* times.
MaxStore == 4
MaxWrites == 4

\* The number of writes that reached the storage.
Writes(s) ==
    CHOOSE m \in 0..(MaxWrites + 1) :
        /\ \A j \in 1..Len(s) : s[j] <= m
        /\ m = 0 \/ \E j \in 1..Len(s) : s[j] = m

\* The storage after the next letter is assigned through a reference to e.
Written(s, e) ==
    IF e \in 0..(Len(s) - 1) THEN [s EXCEPT ![e + 1] = Writes(s) + 1] ELSE s

\* new char[N]; the views are not built yet.
InitStore ==
    /\ op = "init"
    /\ arg = "none"
    /\ res = "none"
    /\ steps = 0
    /\ x = char_count(FromNat(0))
    /\ y = NoCount
    /\ \E N \in 1..MaxStore : S = [j \in 1..N |-> 0]
    /\ orig = safe_array_default("char")
    /\ view = safe_array_default("char")
    /\ P0 = nullptr
    /\ C0 = FromNat(0)
    /\ adv = 0

\* orig is built over the storage with n, the number of its elements, as its
\* count, and view as its copy.
BuildOver(n) ==
    /\ op = "init"
    /\ n = Len(S)
    /\ op' = "safe_array_raw"
    /\ arg' = n
    /\ orig' = safe_array_raw("char", Ptr(0, Len(S)), FromNat(n))
    /\ view' = safe_array_copy(orig')
    /\ P0' = orig'.pElems_
    /\ C0' = orig'.count_.count_
    /\ adv' = 0
    /\ res' = "none"
    /\ UNCHANGED <<x, y, steps, S>>

\* view = orig.
Copy ==
    /\ ViewBuilt
    /\ adv > 0
    /\ op' = "copy"
    /\ arg' = "none"
    /\ view' = safe_array_copy(orig)
    /\ adv' = 0
    /\ res' = view'
    /\ UNCHANGED <<x, y, steps, S, orig, P0, C0>>

\* An operator that moves view by d; arg is view as it was before.  A view
\* that has left the storage is not moved again.
Advanced(name, d, r) ==
    /\ ViewBuilt
    /\ adv <= Len(S)
    /\ op' = name
    /\ arg' = view
    /\ view' = r.self
    /\ res' = r.ret
    /\ adv' = adv + d
    /\ UNCHANGED <<x, y, steps, S, orig, P0, C0>>

CopyPlusAssign(d) ==
    /\ ViewBuilt
    /\ \E w \in view_plus_assign(view, char_count(FromNat(d))) :
           Advanced("view_plus_assign", d, [self |-> w, ret |-> w])

CopyPreInc == ViewBuilt /\ \E r \in view_pre_inc(view) : Advanced("view_pre_inc", 1, r)

CopyPostInc == ViewBuilt /\ \E r \in view_post_inc(view) : Advanced("view_post_inc", 1, r)

\* orig + d: res is the view returned.
OrigPlus(d) ==
    /\ ViewBuilt
    /\ op # "orig_plus"
    /\ \E r \in view_plus_const(orig, char_count(FromNat(d))) :
           /\ orig' = r.self
           /\ res' = r.ret
    /\ op' = "orig_plus"
    /\ arg' = d
    /\ UNCHANGED <<x, y, steps, S, view, P0, C0, adv>>

\* A letter is assigned through a reference to e, an element not assigned
\* before; res is e.
Assigned(name, a, e) ==
    /\ Writes(S) < MaxWrites
    /\ e \in 0..(Len(S) - 1) => S[e + 1] = 0
    /\ op' = name
    /\ arg' = a
    /\ res' = e
    /\ S' = Written(S, e)
    /\ UNCHANGED <<y, steps, view, orig, P0, C0, adv>>

\* *(orig + d) = letter, for the sum just computed.
WriteSum ==
    /\ op = "orig_plus"
    /\ \E e \in operator_deref(res, S) : Assigned("write_sum", arg, e)
    /\ UNCHANGED x

\* orig[i++] = letter.
WriteOrigPostInc ==
    /\ ViewBuilt
    /\ NatLess(x.count_, FromNat(MaxDist))
    /\ \E e \in operator_index(orig, post_inc(x).ret, S) :
           Assigned("write_orig_index", post_inc(x).ret, e)
    /\ x' = post_inc(x).self

\* view[i] = letter.
WriteIndex(i) ==
    /\ ViewBuilt
    /\ \E e \in operator_index(view, char_count(FromNat(i)), S) :
           Assigned("write_index", char_count(FromNat(i)), e)
    /\ UNCHANGED x

\* *view = letter.
WriteDeref ==
    /\ ViewBuilt
    /\ \E e \in operator_deref(view, S) : Assigned("write_deref", "none", e)
    /\ UNCHANGED x

NextStore ==
    \/ \E n \in 1..MaxStore : BuildOver(n)
    \/ Copy
    \/ \E d \in 0..MaxDist : CopyPlusAssign(d)
    \/ CopyPreInc
    \/ CopyPostInc
    \/ \E d \in 0..MaxDist : OrigPlus(d)
    \/ WriteSum
    \/ WriteOrigPostInc
    \/ \E i \in 0..MaxDist : WriteIndex(i)
    \/ WriteDeref

SpecStore == InitStore /\ [][NextStore]_vars

(***************************************************************************)
(* Properties of views over written storage, under SpecStore.              *)
(***************************************************************************)

\* The last letter written is in element e.
LastWrittenAt(e) == e \in 0..(Len(S) - 1) /\ S[e + 1] = Writes(S)

\* C11: for a view over storage S from element 0, advanced by k elements in
\* all, v[i] denotes S[k + i] and *v denotes S[k], for the elements the
\* storage has; orig, never advanced, has k = 0.  Each write of the demo
\* sequence lands in the element so denoted.
C11_IndexIsRelativeToPosition ==
    ViewBuilt =>
        /\ \A i \in 0..MaxDist :
               /\ adv + i < Len(S) =>
                      operator_index(view, char_count(FromNat(i)), S) = {adv + i}
               /\ i < Len(S) =>
                      operator_index(orig, char_count(FromNat(i)), S) = {i}
        /\ adv < Len(S) => operator_deref(view, S) = {adv}
        /\ (op = "write_index" /\ adv + ToNat(arg.count_) < Len(S)) =>
               res = adv + ToNat(arg.count_) /\ LastWrittenAt(res)
        /\ (op = "write_deref" /\ adv < Len(S)) => res = adv /\ LastWrittenAt(res)
        /\ (op = "write_orig_index" /\ ToNat(arg.count_) < Len(S)) =>
               res = ToNat(arg.count_) /\ LastWrittenAt(res)
        /\ (op = "write_sum" /\ arg < Len(S)) => res = arg /\ LastWrittenAt(res)

\* The demo sequence has run over storage of 4 elements: orig[i++], *(orig + i),
\* the copy, += 2, view[0], ++view, *view wrote elements 0, 1, 2, 3 in that
\* order.
C11_Witness ==
    /\ op = "write_deref"
    /\ Len(S) = 4
    /\ S = <<1, 2, 3, 4>>
    /\ x = char_count(FromNat(1))
    /\ adv = 3
    /\ res = 3
    /\ view.pElems_ = Ptr(3, 4)
    /\ orig.pElems_ = Ptr(0, 4)

\* The operators that build, copy or advance a view, or add to one.
ViewOps ==
    {"safe_array_raw", "copy", "view_plus_assign", "view_pre_inc", "view_post_inc",
     "orig_plus"}

\* C12: views are values.  orig keeps the pointer and count it was built
\* with, whatever is added to it with + and however its copy is advanced;
\* + returns another view, at the position asked for; and a step that
\* builds, copies or advances a view, or adds to one, leaves every element
\* of the storage as it was.
C12_ViewsAreValues ==
    /\ [](ViewBuilt =>
            /\ orig.pElems_ = P0
            /\ orig.count_.count_ = C0
            /\ orig = safe_array_raw("char", Ptr(0, Len(S)), FromNat(Len(S)))
            /\ (op = "orig_plus" /\ arg > 0 /\ arg <= Len(S)) =>
                   /\ res.pElems_ = Ptr(arg, Len(S))
                   /\ res # orig)
    /\ [][/\ op' \in ViewOps => S' = S
          /\ op' \in (ViewOps \ {"safe_array_raw"}) => orig' = orig
          /\ op' = "orig_plus" => view' = view]_vars

\* 1 has been added to orig after its copy was advanced to the end of written
\* storage: orig is still at element 0 with its count of 4.
C12_Witness ==
    /\ op = "orig_plus"
    /\ arg = 1
    /\ adv = 3
    /\ Writes(S) > 0
    /\ view.pElems_ = Ptr(3, 4)
    /\ res.pElems_ = Ptr(1, 4)
    /\ res.count_ = char_count(FromNat(3))
    /\ orig = safe_array_raw("char", Ptr(0, 4), FromNat(4))

(***************************************************************************)
(* The members that change a count, and a view: a program works on two     *)
(* counts, or on views over storage, with the operations of SpecArith or   *)
(* of SpecStore.                                                           *)
(***************************************************************************)

InitMembers == InitArith \/ InitStore

NextMembers ==
    \/ S = <<>> /\ NextArith
    \/ S # <<>> /\ NextStore

SpecMembers == InitMembers /\ [][NextMembers]_vars

\* C14: for a count of magnitude n (arg is the count before the call, x
\* after it, res what the call returned; magnitudes are modulo 2^64):
\* prefix ++ and -- leave n + 1 and n - 1 and return the updated count;
\* postfix ++ and -- leave n + 1 and n - 1 and return a count of magnitude n;
\* c += d and c -= d leave c equal to c + d and c - d, and d as it was.
\* Postfix ++ on a view returns the view as it was and leaves it one element
\* on; orig[i++] uses i as it was and leaves i one more.
C14_IncrementsAndCompoundAssignments ==
    /\ [](/\ op \in {"pre_inc", "post_inc"} =>
                /\ IsWrappedDifference(arg.count_, x.count_, FromNat(1))
                /\ x.unit = arg.unit
          /\ op \in {"pre_dec", "post_dec"} =>
                /\ IsWrappedDifference(x.count_, arg.count_, FromNat(1))
                /\ x.unit = arg.unit
          /\ op \in {"pre_inc", "pre_dec"} => res = x
          /\ op \in {"post_inc", "post_dec"} => res = arg
          /\ op = "plus_assign" =>
                /\ x = operator_plus(arg, y)
                /\ operator_eq(x, operator_plus(arg, y))
                /\ IsWrappedDifference(arg.count_, x.count_, y.count_)
          /\ op = "minus_assign" =>
                /\ x = operator_minus(arg, y)
                /\ operator_eq(x, operator_minus(arg, y))
                /\ IsWrappedDifference(x.count_, arg.count_, y.count_)
          /\ op = "view_post_inc" =>
                /\ res = arg
                /\ view.count_ = operator_minus(arg.count_, char_count(FromNat(1)))
                /\ (~arg.pElems_.null /\ arg.pElems_.off < arg.pElems_.len) =>
                       view.pElems_ = Ptr(arg.pElems_.off + 1, arg.pElems_.len)
          /\ op = "view_pre_inc" => res = view
          /\ op = "write_orig_index" =>
                /\ IsWrappedDifference(arg.count_, x.count_, FromNat(1))
                /\ ToNat(arg.count_) < Len(S) => res = ToNat(arg.count_))
    /\ [][op' \in {"plus_assign", "minus_assign"} => y' = y]_vars

\* Postfix ++ on a count of 2^64 - 1 has left 0 and returned 2^64 - 1.
C14_Witness ==
    /\ op = "post_inc"
    /\ arg.count_ = MaxSize
    /\ x.count_ = FromNat(0)
    /\ res = arg
    /\ res # x

====
